---- MODULE Spec2Model ----
(***************************************************************************)
(* Weighted blended order-independent transparency (bevy-wboit): the       *)
(* per-frame schedule of the naive and the histogram-equalised variant,    *)
(* their per-view resources and the passes of the render graph.            *)
(*                                                                         *)
(* One frame is: the main world runs (markers, viewport and scene may      *)
(* change), the host extracts, then the render systems of both plugins     *)
(* run in schedule order, then the render graph runs for each view, then   *)
(* the host cleans up.  Texture contents are abstract: a texture holds     *)
(* either the zero bytes of a fresh allocation or the result of one        *)
(* accumulation pass, named by (view, pass, frame, items drawn).           *)
(***************************************************************************)
EXTENDS Integers, Sequences, FiniteSets, TLC

Views == {1, 2}                 \* cameras (all of them Camera3d)
Items == {1, 2}                 \* transparent meshes of the scene
UnsupportedLayout == {2}        \* meshes whose layout the OIT pipelines cannot specialise
Sizes == {40, 80}               \* known viewport sizes: width = height, in pixels
MaxFrames == 3                  \* frames rendered
MaxOps == 2                     \* main-world changes made by the application

None == <<>>                    \* Option::None
Some(x) == <<x>>                \* Option::Some
IsSome(o) == o /= <<>>
Get(o) == o[1]

VARIABLES
    \* ---- main world
    camera3d,        \* SUBSET Views: the entities of the world that carry Camera3d
    settings,        \* [Views -> [naive, he : BOOLEAN]]: WboitSettings / HEWboitSettings on the camera
    viewport,        \* [Views -> Option(Sizes)]: physical_viewport_size
    scene,           \* the visible transparent meshes, in the order of the host's visible-entity list
    viewKeys,        \* SUBSET Views: the views the host's ViewKeyCache holds a key for
    pipelineResource, \* [naive, he : BOOLEAN]: WboitPipeline / HistogramWboitPipeline is a resource
    pendingSync,     \* views that lost a synced component since the last extract
    ops,             \* main-world changes made so far
    syncDespawns,    \* host: losing a synced component despawns the render entity
    msaa,            \* [Views -> {"Off", "Sample4"}]: the Msaa component of the camera
    heSettings,      \* [Views -> Option([tile_size, num_bins, max_depth])]: the HEWboitSettings component
    depthUsages,     \* [Views -> SUBSET TextureUsages]: Camera3d::depth_texture_usages
    hdr,             \* [Views -> BOOLEAN]: the camera renders to an HDR main texture
    frame,           \* frames begun so far
    \* ---- schedule
    pc,              \* "main", a render system, "graph" or "cleanup"
    prepared,        \* the PrepareResources systems that have run this frame
    gview,           \* the view whose render graph is running
    nodes,           \* graph nodes that have run for gview
    \* ---- render world
    extracted,       \* [Views -> [naive, he : BOOLEAN]]: extracted markers on the render entity
    wboitTextures,   \* [Views -> Option([id, frame_index])]: WboitTextures component
    insertCmd,       \* [Views -> Option(WboitTextures)]: deferred insert of PrepareResources
    histoTextures,   \* [Views -> Option(HistogramWboitTextures)]
    pipelineId,      \* [Views -> [naive, he : "none" | "queued" | "ready"]]: composite pipeline ids
    bindGroups,      \* [Views -> [naive, he : Option(bind groups)]]
    phases,          \* [Views -> [transparent : Seq, wboit, histo : Option(Seq)]]
    textureCache,    \* [Families \X Sizes -> Seq([id, unused, taken])]
    textures,        \* [live texture ids -> [accum, revealage]]
    cdfPipelineReady,\* the CDF build compute pipeline has been compiled
    \* ---- what the frame did (reset at the start of every frame)
    log,             \* [Views -> Seq(event)]: node runs of this frame, in order
    flips,           \* [Views -> Nat]: writes of 1 - frame_index this frame
    hadTextures,     \* [Views -> BOOLEAN]: WboitTextures present when the frame's preparation began
    lastFrame,       \* [Views -> [he : BOOLEAN, items : SUBSET Items]]: the previous frame's HE queue
    \* ---- one dispatch of the CDF build pass, bin by bin
    cdfGeometry,     \* [tile_count_x, tile_count_y, num_bins] of the HistogramWboitTextures
    histogramBuffer, \* [0 .. tiles * num_bins - 1 -> Nat]: the counters
    cdfTexture,      \* [texel <<x, y, bin>> -> 0 .. F16One]: the stored values
    cdfWritten,      \* the texels the dispatch has stored to
    cdfStage,        \* "none", "recorded" (pass encoded), "done" (dispatch executed)
    \* ---- one texel of the revealage target during an accumulation pass
    revealageTexel,  \* 0 .. 255: the R8Unorm value stored
    toBlend,         \* [Coverages -> Nat]: the fragments of the pixel not yet drawn
    blended,         \* [Coverages -> Nat]: the fragments drawn
    \* ---- one creation of the histogram resources of a view
    histoInput,      \* [width, height, tile_size, num_bins, overflow_checks]
    pipelineFormat,  \* [Views -> [naive, he : "none" | a format]]: target format of the queued pipeline
    histoCreated     \* [status, tile_count_x, tile_count_y, num_bins, histogram_size, cdf_size]

vars == <<camera3d, settings, viewport, scene, viewKeys, pipelineResource, pendingSync, ops, syncDespawns, msaa, heSettings, depthUsages, hdr, frame, pc, prepared, gview, nodes,
          extracted, wboitTextures, insertCmd, histoTextures, pipelineId, bindGroups,
          phases, textureCache, textures, cdfPipelineReady, log, flips, hadTextures,
          lastFrame, cdfGeometry, histogramBuffer, cdfTexture, cdfWritten, cdfStage,
          revealageTexel, toBlend, blended, histoInput, pipelineFormat, histoCreated>>

cdfVars == <<cdfGeometry, histogramBuffer, cdfTexture, cdfWritten, cdfStage>>
texelVars == <<revealageTexel, toBlend, blended>>
createVars == <<histoInput, histoCreated>>
sideVars == <<cdfVars, texelVars, createVars>>
gpuVars == <<sideVars, pipelineFormat>>
mainVars == <<camera3d, settings, viewport, scene, viewKeys, pipelineResource, pendingSync, ops, syncDespawns, msaa, heSettings, depthUsages,
              hdr>>
obsVars == <<flips, hadTextures, lastFrame>>

(***************************************************************************)
(* Texture and buffer contents                                             *)
(***************************************************************************)
\* A texture as the device hands it out: all bytes zero (accum = 0, revealage = 0).
ZeroContent == [view |-> 0, pass |-> "zero", frame |-> 0, items |-> {}]
\* What an accumulation pass leaves in its targets: cleared, then `items` blended in.
Written(v, pass, f, items) == [view |-> v, pass |-> pass, frame |-> f, items |-> items]
\* The cleared values (accum = 0, revealage = 1): a pass that drew nothing.
IsCleared(c) == c.pass /= "zero" /\ c.items = {}

ZeroTexture == [accum |-> ZeroContent, revealage |-> [i \in {0, 1} |-> ZeroContent]]
ZeroCdf == [builtAt |-> 0, from |-> {}]

Families == {"wboit", "he_wboit"}
CacheKeys == Families \X Sizes

(***************************************************************************)
(* Initial state: the app is built with both plugins, the cameras carry no *)
(* opt-in marker, the windows are sized and the scene holds every item.    *)
(***************************************************************************)
NoMarkers == [naive |-> FALSE, he |-> FALSE]
\* HEWboitSettings::default()
DefaultTileSize == 32
DefaultNumBins == 64
DefaultMaxDepth == 100
HEWboitSettingsDefault ==
    [tile_size |-> DefaultTileSize, num_bins |-> DefaultNumBins, max_depth |-> DefaultMaxDepth]
\* The values the application gives the component: the default, a tile size
\* with the same tile counts at every size of Sizes, one with other tile
\* counts, fewer and more bins, another depth range.
HEWboitSettingsValues ==
    {HEWboitSettingsDefault,
     [HEWboitSettingsDefault EXCEPT !.tile_size = 30],
     [HEWboitSettingsDefault EXCEPT !.tile_size = 16],
     [HEWboitSettingsDefault EXCEPT !.num_bins = 32],
     [HEWboitSettingsDefault EXCEPT !.num_bins = 128],
     [HEWboitSettingsDefault EXCEPT !.max_depth = 50]}
\* TextureUsages flags a depth texture is given here, and Camera3d::default()
TextureUsages == {"COPY_SRC", "TEXTURE_BINDING", "RENDER_ATTACHMENT"}
Camera3dDefaultUsages == {"RENDER_ATTACHMENT"}
\* The usages the application gives a camera.
DepthUsageValues == {{"RENDER_ATTACHMENT"},
                     {"RENDER_ATTACHMENT", "COPY_SRC"},
                     {"RENDER_ATTACHMENT", "COPY_SRC", "TEXTURE_BINDING"}}
EmptyPhases == [transparent |-> <<>>, wboit |-> None, histo |-> None]

BeforeFirstFrame ==
    /\ viewport = [v \in Views |-> Some(40)]
    /\ scene = <<1, 2>>
    \* Plugin::finish: init_resource::<WboitPipeline>(), ::<HistogramWboitPipeline>()
    /\ pipelineResource = [naive |-> TRUE, he |-> TRUE]
    /\ pendingSync = {}
    /\ ops = 0
    /\ syncDespawns \in BOOLEAN
    /\ msaa = [v \in Views |-> "Off"]
    /\ heSettings = [v \in Views |-> IF settings[v].he THEN Some(HEWboitSettingsDefault) ELSE None]
    /\ depthUsages = [v \in Views |-> Camera3dDefaultUsages]
    /\ hdr = [v \in Views |-> FALSE]
    /\ pipelineFormat = [v \in Views |-> [naive |-> "none", he |-> "none"]]
    /\ frame = 0
    /\ pc = "main"
    /\ prepared = {}
    /\ gview = 0
    /\ nodes = {}
    /\ extracted = [v \in Views |-> NoMarkers]
    /\ wboitTextures = [v \in Views |-> None]
    /\ insertCmd = [v \in Views |-> None]
    /\ histoTextures = [v \in Views |-> None]
    /\ pipelineId = [v \in Views |-> [naive |-> "none", he |-> "none"]]
    /\ bindGroups = [v \in Views |-> [naive |-> None, he |-> None]]
    /\ phases = [v \in Views |-> EmptyPhases]
    /\ textureCache = [k \in CacheKeys |-> <<>>]
    /\ textures = <<>>
    /\ cdfPipelineReady = FALSE
    /\ log = [v \in Views |-> <<>>]
    /\ flips = [v \in Views |-> 0]
    /\ hadTextures = [v \in Views |-> FALSE]
    /\ lastFrame = [v \in Views |-> [he |-> FALSE, items |-> {}]]

\* The cameras are spawned with the marker `mode`, or with none of the two.
SpawnedWith(mode) == [v \in Views |-> [naive |-> mode = "naive", he |-> mode = "he"]]

\* The coverages (alpha) of the fragments of the pixel looked into, in fifths.
Coverages == 1..4
\* No pixel of the revealage target is looked into.
NoFragments ==
    /\ revealageTexel = 0
    /\ toBlend = [c \in Coverages |-> 0]
    /\ blended = [c \in Coverages |-> 0]

\* No dispatch of the CDF build pass is looked into.
NoDispatch ==
    /\ cdfGeometry = [tile_count_x |-> 0, tile_count_y |-> 0, num_bins |-> 0]
    /\ histogramBuffer = <<>>
    /\ cdfTexture = <<>>
    /\ cdfWritten = {}
    /\ cdfStage = "none"

\* No creation of histogram resources is looked into.
NoCreation ==
    /\ histoInput = [width |-> 0, height |-> 0, tile_size |-> 0, num_bins |-> 0,
                     overflow_checks |-> FALSE]
    /\ histoCreated = [status |-> "none", tile_count_x |-> 0, tile_count_y |-> 0,
                       num_bins |-> 0, histogram_size |-> <<0, 0, 0>>,
                       cdf_size |-> <<0, 0, 0>>]

Init ==
    /\ camera3d = Views
    /\ viewKeys = Views
    /\ settings = SpawnedWith("none")
    /\ BeforeFirstFrame
    /\ NoDispatch
    /\ NoFragments
    /\ NoCreation

\* commands.spawn((Camera3d::default(), WboitSettings, Msaa::Off)), or the same
\* with HEWboitSettings::default()
InitSpawned ==
    /\ camera3d = Views
    /\ viewKeys = Views
    /\ settings \in {SpawnedWith("naive"), SpawnedWith("he")}
    /\ BeforeFirstFrame
    /\ NoDispatch
    /\ NoFragments
    /\ NoCreation

\* The cameras spawned without a marker, on a host whose ViewKeyCache holds
\* a key for some of the views only.
InitQueue ==
    /\ camera3d = Views
    /\ viewKeys \in SUBSET Views
    /\ settings = SpawnedWith("none")
    /\ BeforeFirstFrame
    /\ NoDispatch
    /\ NoFragments
    /\ NoCreation

\* setup of the demo: one camera, spawned with (Camera3d::default(),
\* WboitSettings, Msaa::Off); or a setup that spawns every camera that way.
InitDemo ==
    /\ camera3d \in {{1}, Views}
    /\ viewKeys = Views
    /\ settings = [v \in Views |-> IF v \in camera3d THEN [naive |-> TRUE, he |-> FALSE]
                                    ELSE NoMarkers]
    /\ BeforeFirstFrame
    /\ NoDispatch
    /\ NoFragments
    /\ NoCreation


(***************************************************************************)
(* Main world: the application attaches and removes the opt-in markers,    *)
(* the window is resized (or loses its size), the scene changes.           *)
(***************************************************************************)
MainStep ==
    /\ pc \in {"main", "Last"}
    /\ ops < MaxOps
    /\ ops' = ops + 1
    /\ UNCHANGED <<gpuVars, camera3d, viewKeys, pipelineResource, syncDespawns, frame, pc, prepared, gview, nodes, extracted, wboitTextures, insertCmd,
                   histoTextures, pipelineId, bindGroups, phases, textureCache, textures,
                   cdfPipelineReady, log, flips, hadTextures, lastFrame>>

\* The application attaches the marker to a camera: insert(WboitSettings)
InsertWboitSettings(v) ==
    /\ MainStep
    /\ ~settings[v].naive
    /\ settings' = [settings EXCEPT ![v].naive = TRUE]
    /\ UNCHANGED <<viewport, scene, pendingSync, msaa, heSettings, depthUsages, hdr>>

\* The application detaches the marker: remove::<WboitSettings>()
RemoveWboitSettings(v) ==
    /\ MainStep
    /\ settings[v].naive
    /\ settings' = [settings EXCEPT ![v].naive = FALSE]
    /\ pendingSync' = IF syncDespawns THEN pendingSync \cup {v} ELSE pendingSync
    /\ UNCHANGED <<viewport, scene, msaa, heSettings, depthUsages, hdr>>

\* The application attaches the component with its default fields:
\* insert(HEWboitSettings::default()), which replaces a component already there.
InsertHEWboitSettings(v) ==
    /\ MainStep
    /\ heSettings[v] /= Some(HEWboitSettingsDefault)
    /\ settings' = [settings EXCEPT ![v].he = TRUE]
    /\ heSettings' = [heSettings EXCEPT ![v] = Some(HEWboitSettingsDefault)]
    /\ UNCHANGED <<viewport, scene, pendingSync, msaa, depthUsages, hdr>>

\* The application detaches the component: remove::<HEWboitSettings>()
RemoveHEWboitSettings(v) ==
    /\ MainStep
    /\ settings[v].he
    /\ settings' = [settings EXCEPT ![v].he = FALSE]
    /\ heSettings' = [heSettings EXCEPT ![v] = None]
    /\ pendingSync' = IF syncDespawns THEN pendingSync \cup {v} ELSE pendingSync
    /\ UNCHANGED <<viewport, scene, msaa, depthUsages, hdr>>

\* toggle_mode of the demo, for one key just pressed.  The system returns
\* unless the world has exactly one Camera3d (camera.single()); otherwise the
\* key removes the marker of the other mode (both for "none") from that
\* camera and inserts the marker of the mode chosen.  The commands are
\* applied when Update ends, before the Last schedule and the extraction.
toggle_mode(mode) ==
    /\ MainStep
    /\ IF Cardinality(camera3d) = 1
       THEN LET v == CHOOSE c \in camera3d : TRUE
            IN /\ settings' = [settings EXCEPT
                                  ![v] = [naive |-> mode = "naive", he |-> mode = "he"]]
               /\ pendingSync' = IF /\ syncDespawns
                                    /\ \/ settings[v].naive /\ mode /= "naive"
                                       \/ settings[v].he /\ mode /= "he"
                                 THEN pendingSync \cup {v} ELSE pendingSync
               /\ heSettings' = [heSettings EXCEPT
                                   ![v] = IF mode = "he" THEN Some(HEWboitSettingsDefault)
                                          ELSE None]
       ELSE UNCHANGED <<settings, pendingSync, heSettings>>
    /\ UNCHANGED <<viewport, scene, msaa, depthUsages, hdr>>

\* The application turns HDR rendering of a camera on or off.
SetHdr(v, on) ==
    /\ MainStep
    /\ hdr[v] /= on
    /\ hdr' = [hdr EXCEPT ![v] = on]
    /\ UNCHANGED <<settings, viewport, scene, pendingSync, msaa, heSettings, depthUsages>>

\* The window is resized, or its size becomes unavailable.
SetViewport(v, size) ==
    /\ MainStep
    /\ viewport[v] /= size
    /\ viewport' = [viewport EXCEPT ![v] = size]
    /\ UNCHANGED <<settings, scene, pendingSync, msaa, heSettings, depthUsages, hdr>>

\* The lists of visible transparent meshes the host can hand to the queue
\* systems: every subset of the meshes, in every order.
Scenes ==
    UNION {{order \in [1..Cardinality(S) -> S] :
                \A i, j \in DOMAIN order : i /= j => order[i] /= order[j]} : S \in SUBSET Items}

\* Transparent meshes are spawned, despawned or hidden, or the host lists
\* them in another order.
SetScene(S) ==
    /\ MainStep
    /\ scene /= S
    /\ scene' = S
    /\ UNCHANGED <<settings, viewport, pendingSync, msaa, heSettings, depthUsages, hdr>>

\* The application changes the Msaa component of a camera.
SetMsaa(v, m) ==
    /\ MainStep
    /\ msaa[v] /= m
    /\ msaa' = [msaa EXCEPT ![v] = m]
    /\ UNCHANGED <<settings, viewport, scene, pendingSync, heSettings, depthUsages, hdr>>

\* The application changes the fields of the HEWboitSettings of a camera.
SetHEWboitSettings(v, s) ==
    /\ MainStep
    /\ settings[v].he
    /\ heSettings[v] /= Some(s)
    /\ heSettings' = [heSettings EXCEPT ![v] = Some(s)]
    /\ UNCHANGED <<settings, viewport, scene, pendingSync, msaa, depthUsages, hdr>>

(***************************************************************************)
(* Update schedule of the main world: the two MSAA checks.  A panic ends   *)
(* the application.  Changes the application makes before the checks run   *)
(* happen at "main", changes made later in the frame (commands applied at  *)
(* the end of Update, systems of later schedules) at "Last".               *)
(***************************************************************************)
\* for msaa in &cameras { if *msaa != Msaa::Off { panic!(..) } }
MsaaPanics(cameras) == \E v \in cameras : msaa[v] /= "Off"

check_msaa_wboit ==
    /\ pc = "main"
    /\ frame < MaxFrames
    /\ pc' = IF MsaaPanics({v \in Views : settings[v].naive})
             THEN "panicked" ELSE "check_msaa_he_wboit"
    /\ UNCHANGED <<mainVars, gpuVars, obsVars, frame, prepared, gview, nodes, extracted, wboitTextures,
                   insertCmd, histoTextures, pipelineId, bindGroups, phases, textureCache,
                   textures, cdfPipelineReady, log>>

check_msaa_he_wboit ==
    /\ pc = "check_msaa_he_wboit"
    /\ pc' = IF MsaaPanics({v \in Views : settings[v].he})
             THEN "panicked" ELSE "Last"
    /\ UNCHANGED <<mainVars, gpuVars, obsVars, frame, prepared, gview, nodes, extracted, wboitTextures,
                   insertCmd, histoTextures, pipelineId, bindGroups, phases, textureCache,
                   textures, cdfPipelineReady, log>>

\* The application sets Camera3d::depth_texture_usages of a camera.
SetDepthUsages(v, usages) ==
    /\ MainStep
    /\ depthUsages[v] /= usages
    /\ depthUsages' = [depthUsages EXCEPT ![v] = usages]
    /\ UNCHANGED <<settings, viewport, scene, pendingSync, msaa, heSettings, hdr>>

(***************************************************************************)
(* Last schedule of the main world: the two systems that configure the     *)
(* depth texture usages of the opted-in cameras, in either order.          *)
(***************************************************************************)
RequiredUsages == {"RENDER_ATTACHMENT", "TEXTURE_BINDING"}

ConfigureDepthKept(current) == current
\* if !current.contains(required) { depth_texture_usages = required.into() }
ConfigureDepth(current) ==
    IF RequiredUsages \subseteq current THEN current ELSE RequiredUsages

\* for mut camera_3d in &mut cameras { .. }
ConfigureFor(cameras, usages) ==
    [v \in Views |-> IF v \in cameras THEN ConfigureDepth(usages[v]) ELSE usages[v]]

\* One of the two systems runs: at "Last" none of them has run yet, at `own`
\* only this one is left to run, at `other` only the other one.
ConfigureCameras(cameras, own, other) ==
    /\ pc \in {"Last", own}
    /\ pc' = IF pc = "Last" THEN other ELSE "Extract"
    /\ depthUsages' = ConfigureFor(cameras, depthUsages)
    /\ UNCHANGED <<camera3d, settings, viewport, scene, viewKeys, pipelineResource, pendingSync, ops, syncDespawns, msaa, heSettings, hdr,
                   gpuVars, obsVars, frame, prepared, gview, nodes, extracted, wboitTextures,
                   insertCmd, histoTextures, pipelineId, bindGroups, phases, textureCache,
                   textures, cdfPipelineReady, log>>

configure_depth_texture_usages_wboit ==
    ConfigureCameras({v \in camera3d : settings[v].naive}, "Last.wboit", "Last.he")

configure_depth_texture_usages_he_wboit ==
    ConfigureCameras({v \in camera3d : settings[v].he}, "Last.he", "Last.wboit")

\* The depth texture usages once both systems of the Last schedule have run.
LastSchedule ==
    ConfigureFor({v \in camera3d : settings[v].he},
                 ConfigureFor({v \in camera3d : settings[v].naive}, depthUsages))

(***************************************************************************)
(* Host: extraction.  When a camera loses a synced marker the host either  *)
(* gives it a fresh render entity, dropping every render-world component   *)
(* of the view, or removes the marker alone and leaves the other           *)
(* components of the render entity in place; which of the two is a         *)
(* property of the host build (syncDespawns).  The markers are copied to   *)
(* the render entity; pipelines queued in the previous frame come out of   *)
(* the pipeline cache; the standard transparent phase of every camera      *)
(* starts empty.                                                           *)
(***************************************************************************)
Schedule == << "extract_wboit_camera_phases",
               "extract_histo_wboit_camera_phases",
               "queue_material_meshes",
               "queue_wboit_meshes",
               "drain_transparent_for_wboit",
               "queue_histo_wboit_meshes",
               "drain_transparent_for_he_wboit",
               "queue_wboit_composite_pipeline",
               "queue_histo_composite_pipeline",
               "sort_phase_system_WboitAccum3d",
               "sort_phase_system_HistoAccum3d",
               "PrepareResources",
               "prepare_wboit_composite_bind_group",
               "prepare_histo_wboit_bind_groups",
               "graph",
               "cleanup" >>

After(name) == Schedule[(CHOOSE i \in 1..Len(Schedule) : Schedule[i] = name) + 1]

Compiled(state) == IF state = "queued" THEN "ready" ELSE state

PhaseItems(o) == IF IsSome(o) THEN {Get(o)[i] : i \in 1..Len(Get(o))} ELSE {}

StartRender ==
    /\ frame < MaxFrames
    /\ frame' = frame + 1
    /\ pc' = Schedule[1]
    /\ extracted' = settings
    /\ pendingSync' = {}
    /\ wboitTextures' = [v \in Views |-> IF v \in pendingSync THEN None ELSE wboitTextures[v]]
    /\ histoTextures' = [v \in Views |-> IF v \in pendingSync THEN None ELSE histoTextures[v]]
    /\ bindGroups' = [v \in Views |->
                        IF v \in pendingSync THEN [naive |-> None, he |-> None]
                        ELSE bindGroups[v]]
    /\ pipelineId' = [v \in Views |->
                        IF v \in pendingSync THEN [naive |-> "none", he |-> "none"]
                        ELSE [naive |-> Compiled(pipelineId[v].naive),
                              he |-> Compiled(pipelineId[v].he)]]
    /\ cdfPipelineReady' \in {cdfPipelineReady, TRUE}
    /\ phases' = [v \in Views |-> [phases[v] EXCEPT !.transparent = <<>>]]
    /\ log' = [v \in Views |-> <<>>]
    /\ flips' = [v \in Views |-> 0]
    /\ hadTextures' = [v \in Views |-> IsSome(wboitTextures'[v])]
    /\ lastFrame' = [v \in Views |->
                        [he |-> v \notin pendingSync /\ extracted[v].he /\ IsSome(phases[v].histo),
                         items |-> PhaseItems(phases[v].histo)]]
    /\ pipelineFormat' = [v \in Views |->
                            IF v \in pendingSync THEN [naive |-> "none", he |-> "none"]
                            ELSE pipelineFormat[v]]
    /\ UNCHANGED <<sideVars, camera3d, settings, viewport, scene, viewKeys, pipelineResource, ops, syncDespawns, msaa, heSettings, hdr, prepared, gview,
                   nodes, insertCmd, textureCache, textures>>

\* A frame of an application whose cameras all keep Msaa::Off: the MSAA
\* checks of the Update schedule pass, the Last schedule configures the depth
\* texture usages, the render schedule starts.
BeginFrame ==
    /\ pc = "main"
    /\ depthUsages' = LastSchedule
    /\ StartRender

\* A frame whose Update schedule has run the MSAA checks: the Last schedule
\* configures the depth texture usages, the render schedule starts.
BeginFrameAfterUpdate ==
    /\ pc = "Last"
    /\ depthUsages' = LastSchedule
    /\ StartRender

\* A frame whose Update and Last schedules have run.
BeginFrameAfterLast ==
    /\ pc = "Extract"
    /\ UNCHANGED depthUsages
    /\ StartRender

(***************************************************************************)
(* Extract schedule: one OIT phase entry per camera carrying the marker,   *)
(* emptied; entries of other views are dropped.                            *)
(***************************************************************************)
\* Extract<Query<Entity, (With<Camera3d>, With<WboitSettings>)>>
wboit_cameras == {v \in camera3d : settings[v].naive}
\* Extract<Query<Entity, (With<Camera3d>, With<HEWboitSettings>)>>
he_wboit_cameras == {v \in camera3d : settings[v].he}

\* An extraction that gives every camera a phase entry.
InsertForAll(live, v) == Some(<<>>)
\* insert_or_clear for the live cameras, retain only the live ones
InsertOrClearAndRetain(live, v) == IF v \in live THEN Some(<<>>) ELSE None

extract_wboit_camera_phases ==
    /\ pc = "extract_wboit_camera_phases"
    /\ pc' = After(pc)
    /\ phases' = [v \in Views |->
                    [phases[v] EXCEPT !.wboit = InsertOrClearAndRetain(wboit_cameras, v)]]
    /\ UNCHANGED <<mainVars, gpuVars, obsVars, frame, prepared, gview, nodes, extracted, wboitTextures,
                   insertCmd, histoTextures, pipelineId, bindGroups, textureCache, textures,
                   cdfPipelineReady, log>>

extract_histo_wboit_camera_phases ==
    /\ pc = "extract_histo_wboit_camera_phases"
    /\ pc' = After(pc)
    /\ phases' = [v \in Views |->
                    [phases[v] EXCEPT !.histo = InsertOrClearAndRetain(he_wboit_cameras, v)]]
    /\ UNCHANGED <<mainVars, gpuVars, obsVars, frame, prepared, gview, nodes, extracted, wboitTextures,
                   insertCmd, histoTextures, pipelineId, bindGroups, textureCache, textures,
                   cdfPipelineReady, log>>

(***************************************************************************)
(* QueueMeshes                                                             *)
(***************************************************************************)
\* Host: queue_material_meshes puts every visible transparent mesh of the
\* scene into the Transparent3d phase of every camera.
queue_material_meshes ==
    /\ pc = "queue_material_meshes"
    /\ pc' = After(pc)
    /\ phases' = [v \in Views |->
                    [phases[v] EXCEPT !.transparent = IF v \in camera3d THEN scene
                                                      ELSE <<>>]]
    /\ UNCHANGED <<mainVars, gpuVars, obsVars, frame, prepared, gview, nodes, extracted, wboitTextures,
                   insertCmd, histoTextures, pipelineId, bindGroups, textureCache, textures,
                   cdfPipelineReady, log>>

\* Query<.., With<WboitSettings>> / With<HEWboitSettings> in the render world
wboit_views == {v \in Views : extracted[v].naive}
he_wboit_views == {v \in Views : extracted[v].he}

\* pipelines.specialize(..): Err for a mesh layout the pipeline does not support
SpecializeOk(item) == item \notin UnsupportedLayout

RECURSIVE QueueIntoUntilFailure(_, _)
\* A per-item loop that ends at the first specialization failure.
QueueIntoUntilFailure(phase, visible) ==
    IF visible = <<>> THEN phase
    ELSE IF SpecializeOk(Head(visible))
         THEN QueueIntoUntilFailure(Append(phase, Head(visible)), Tail(visible))
         ELSE phase

RECURSIVE QueueInto(_, _)
\* The per-item loop over the visible meshes, in their order: a
\* specialization failure is logged and the loop continues with the next
\* mesh; every other visible transparent mesh is added to the phase.
QueueInto(phase, visible) ==
    IF visible = <<>> THEN phase
    ELSE IF SpecializeOk(Head(visible))
         THEN QueueInto(Append(phase, Head(visible)), Tail(visible))
         ELSE QueueInto(phase, Tail(visible))

\* The views the queue system of a family works on: it returns at once
\* without its pipeline resource, and skips a view of its query that has no
\* OIT phase entry or no cached view key.
QueueViews(family) ==
    IF family = "naive"
    THEN {v \in wboit_views : pipelineResource.naive /\ IsSome(phases[v].wboit) /\ v \in viewKeys}
    ELSE {v \in he_wboit_views : pipelineResource.he /\ IsSome(phases[v].histo) /\ v \in viewKeys}

queue_wboit_meshes ==
    /\ pc = "queue_wboit_meshes"
    /\ pc' = After(pc)
    /\ phases' = [v \in Views |->
                    IF v \in QueueViews("naive")
                    THEN [phases[v] EXCEPT
                            !.wboit = Some(QueueInto(Get(phases[v].wboit), scene))]
                    ELSE phases[v]]
    /\ UNCHANGED <<mainVars, gpuVars, obsVars, frame, prepared, gview, nodes, extracted, wboitTextures,
                   insertCmd, histoTextures, pipelineId, bindGroups, textureCache, textures,
                   cdfPipelineReady, log>>

\* A drain that clears nothing.
DrainNothing(views, v) == phases[v].transparent
\* phase.items.clear() for every view of the query
DrainFor(views, v) == IF v \in views THEN <<>> ELSE phases[v].transparent

drain_transparent_for_wboit ==
    /\ pc = "drain_transparent_for_wboit"
    /\ pc' = After(pc)
    /\ phases' = [v \in Views |-> [phases[v] EXCEPT !.transparent = DrainFor(wboit_views, v)]]
    /\ UNCHANGED <<mainVars, gpuVars, obsVars, frame, prepared, gview, nodes, extracted, wboitTextures,
                   insertCmd, histoTextures, pipelineId, bindGroups, textureCache, textures,
                   cdfPipelineReady, log>>

queue_histo_wboit_meshes ==
    /\ pc = "queue_histo_wboit_meshes"
    /\ pc' = After(pc)
    /\ phases' = [v \in Views |->
                    IF v \in QueueViews("he")
                    THEN [phases[v] EXCEPT
                            !.histo = Some(QueueInto(Get(phases[v].histo), scene))]
                    ELSE phases[v]]
    /\ UNCHANGED <<mainVars, gpuVars, obsVars, frame, prepared, gview, nodes, extracted, wboitTextures,
                   insertCmd, histoTextures, pipelineId, bindGroups, textureCache, textures,
                   cdfPipelineReady, log>>

drain_transparent_for_he_wboit ==
    /\ pc = "drain_transparent_for_he_wboit"
    /\ pc' = After(pc)
    /\ phases' = [v \in Views |-> [phases[v] EXCEPT !.transparent = DrainFor(he_wboit_views, v)]]
    /\ UNCHANGED <<mainVars, gpuVars, obsVars, frame, prepared, gview, nodes, extracted, wboitTextures,
                   insertCmd, histoTextures, pipelineId, bindGroups, textureCache, textures,
                   cdfPipelineReady, log>>

(***************************************************************************)
(* Queue: the composite pipeline is queued once per view, for the views    *)
(* that carry the marker and no pipeline id yet.                           *)
(***************************************************************************)
QueuePipeline(views, state, v) == IF v \in views /\ state = "none" THEN "queued" ELSE state

\* view_target.main_texture_format()
main_texture_format(v) == IF hdr[v] THEN "TEXTURE_FORMAT_HDR" ELSE "bevy_default"

\* targets: vec![Some(ColorTargetState { format, .. })] of the pipeline queued
\* for a view without a pipeline id
TargetFormat(views, state, format, v) ==
    IF v \in views /\ state = "none"
    THEN (IF main_texture_format(v) = "TEXTURE_FORMAT_HDR"
          THEN "TEXTURE_FORMAT_HDR" ELSE "bevy_default")
    ELSE format

queue_wboit_composite_pipeline ==
    /\ pc = "queue_wboit_composite_pipeline"
    /\ pc' = After(pc)
    /\ pipelineId' = [v \in Views |->
                        [pipelineId[v] EXCEPT
                            !.naive = QueuePipeline(wboit_views, pipelineId[v].naive, v)]]
    /\ pipelineFormat' = [v \in Views |->
                            [pipelineFormat[v] EXCEPT
                                !.naive = TargetFormat(wboit_views, pipelineId[v].naive, @, v)]]
    /\ UNCHANGED <<mainVars, sideVars, obsVars, frame, prepared, gview, nodes, extracted, wboitTextures,
                   insertCmd, histoTextures, bindGroups, phases, textureCache, textures,
                   cdfPipelineReady, log>>

queue_histo_composite_pipeline ==
    /\ pc = "queue_histo_composite_pipeline"
    /\ pc' = After(pc)
    /\ pipelineId' = [v \in Views |->
                        [pipelineId[v] EXCEPT
                            !.he = QueuePipeline(he_wboit_views, pipelineId[v].he, v)]]
    /\ pipelineFormat' = [v \in Views |->
                            [pipelineFormat[v] EXCEPT
                                !.he = TargetFormat(he_wboit_views, pipelineId[v].he, @, v)]]
    /\ UNCHANGED <<mainVars, sideVars, obsVars, frame, prepared, gview, nodes, extracted, wboitTextures,
                   insertCmd, histoTextures, bindGroups, phases, textureCache, textures,
                   cdfPipelineReady, log>>

(***************************************************************************)
(* PhaseSort: the items of every OIT phase are sorted, ascending in their   *)
(* sort key, the distance of the mesh along the view direction.            *)
(***************************************************************************)
\* rangefinder.distance(&mesh_instance.center) + depth_bias: the scene has
\* the mesh spawned first farther from the cameras than the one spawned later.
Distance(item) == 13 - 4 * item

RECURSIVE SortedInsert(_, _)
SortedInsert(sorted, item) ==
    IF sorted = <<>> THEN <<item>>
    ELSE IF Distance(sorted[Len(sorted)]) <= Distance(item)
         THEN Append(sorted, item)
         ELSE Append(SortedInsert(SubSeq(sorted, 1, Len(sorted) - 1), item),
                     sorted[Len(sorted)])

RECURSIVE SortByKey(_)
\* phase.sort(): ascending in sort_key() = FloatOrd(distance)
SortByKey(items) ==
    IF items = <<>> THEN <<>>
    ELSE SortedInsert(SortByKey(SubSeq(items, 1, Len(items) - 1)), items[Len(items)])

\* for phase in render_phases.values_mut() { phase.sort() }
SortPhase(o) == IF IsSome(o) THEN Some(SortByKey(Get(o))) ELSE None

sort_phase_system_WboitAccum3d ==
    /\ pc = "sort_phase_system_WboitAccum3d"
    /\ pc' = After(pc)
    /\ phases' = [v \in Views |-> [phases[v] EXCEPT !.wboit = SortPhase(@)]]
    /\ UNCHANGED <<mainVars, gpuVars, obsVars, frame, prepared, gview, nodes, extracted, wboitTextures,
                   insertCmd, histoTextures, pipelineId, bindGroups, textureCache, textures,
                   cdfPipelineReady, log>>

sort_phase_system_HistoAccum3d ==
    /\ pc = "sort_phase_system_HistoAccum3d"
    /\ pc' = After(pc)
    /\ phases' = [v \in Views |-> [phases[v] EXCEPT !.histo = SortPhase(@)]]
    /\ UNCHANGED <<mainVars, gpuVars, obsVars, frame, prepared, gview, nodes, extracted, wboitTextures,
                   insertCmd, histoTextures, pipelineId, bindGroups, textureCache, textures,
                   cdfPipelineReady, log>>

(***************************************************************************)
(* PrepareResources.  Host texture cache: get() returns the first texture  *)
(* of the wanted descriptor that nobody took this frame, or allocates one; *)
(* update() (at cleanup) forgets textures unused for three frames.  The    *)
(* accum, revealage_a and revealage_b textures of a family are always      *)
(* requested together at one size, so one id names the three of them.      *)
(***************************************************************************)
FreshId(tex) ==
    CHOOSE i \in 1..(Cardinality(DOMAIN tex) + 1) :
        i \notin DOMAIN tex /\ \A j \in 1..(i - 1) : j \in DOMAIN tex

FirstFree(entries) ==
    IF \E i \in 1..Len(entries) : ~entries[i].taken
    THEN CHOOSE i \in 1..Len(entries) :
            ~entries[i].taken /\ \A j \in 1..(i - 1) : entries[j].taken
    ELSE 0

\* The textures created for a descriptor of the given width and height.
NewTexture(size) == [size |-> size] @@ ZeroTexture

\* texture_cache.get(&render_device, descriptor) on st = [cache, tex, ..]
TextureCacheGet(st, key) ==
    LET entries == st.cache[key]
        i == FirstFree(entries)
        id == FreshId(st.tex)
    IN IF i > 0
       THEN [cache |-> [st.cache EXCEPT ![key][i] = [@ EXCEPT !.taken = TRUE, !.unused = 0]],
             tex |-> st.tex,
             id |-> entries[i].id]
       ELSE [cache |-> [st.cache EXCEPT
                            ![key] = Append(@, [id |-> id, unused |-> 0, taken |-> TRUE])],
             tex |-> st.tex @@ (id :> NewTexture(key[2])),
             id |-> id]

\* tex.frame_index = 1 - tex.frame_index
Toggle(frame_index) == 1 - frame_index

\* "Toggle frame index or initialize" for one view, with the textures just fetched
ToggleOrInit(st, v, id) ==
    IF IsSome(st.wt[v])
    THEN [st EXCEPT !.wt[v] = Some([id |-> id, frame_index |-> Toggle(Get(@).frame_index)]),
                    !.flips[v] = @ + 1]
    ELSE [st EXCEPT !.cmd[v] = Some([id |-> id, frame_index |-> 0])]

RECURSIVE PrepareTexturesUntilUnknown(_, _, _)
\* A loop that ends at the first camera of unknown size.
PrepareTexturesUntilUnknown(family, cameras, st) ==
    IF cameras = <<>> THEN st
    ELSE LET v == Head(cameras)
         IN IF viewport[v] = None
            THEN st
            ELSE LET g == TextureCacheGet(st, <<family, Get(viewport[v])>>)
                     fetched == [st EXCEPT !.cache = g.cache, !.tex = g.tex]
                 IN PrepareTexturesUntilUnknown(family, Tail(cameras),
                                                ToggleOrInit(fetched, v, g.id))

RECURSIVE PrepareTextures(_, _, _)
\* The loop over the cameras of the query; a camera of unknown size is skipped.
PrepareTextures(family, cameras, st) ==
    IF cameras = <<>> THEN st
    ELSE LET v == Head(cameras)
         IN IF viewport[v] = None
            THEN PrepareTextures(family, Tail(cameras), st)
            ELSE LET g == TextureCacheGet(st, <<family, Get(viewport[v])>>)
                     fetched == [st EXCEPT !.cache = g.cache, !.tex = g.tex]
                 IN PrepareTextures(family, Tail(cameras), ToggleOrInit(fetched, v, g.id))

PrepareState ==
    [cache |-> textureCache, tex |-> textures, wt |-> wboitTextures, cmd |-> insertCmd,
     flips |-> flips]

\* The deferred inserts are applied when the last system of the set has run.
ApplyDeferred(wt, cmd, last) ==
    [v \in Views |-> IF last /\ IsSome(cmd[v]) THEN cmd[v] ELSE wt[v]]

PrepareSystems == {"prepare_wboit_textures", "prepare_histogram_wboit_textures"}

PrepareDone(name, st) ==
    LET last == prepared \cup {name} = PrepareSystems
    IN /\ prepared' = IF last THEN {} ELSE prepared \cup {name}
       /\ pc' = IF last THEN After(pc) ELSE pc
       /\ textureCache' = st.cache
       /\ textures' = st.tex
       /\ flips' = st.flips
       /\ wboitTextures' = ApplyDeferred(st.wt, st.cmd, last)
       /\ insertCmd' = IF last THEN [v \in Views |-> None] ELSE st.cmd

\* for (entity, camera) in &cameras: the cameras of the query, in an
\* order the host chooses (it changes when entities change their archetype).
QueryOrders(cameras) ==
    {order \in [1..Cardinality(cameras) -> cameras] :
        \A i, j \in DOMAIN order : i /= j => order[i] /= order[j]}

prepare_wboit_textures ==
    /\ pc = "PrepareResources"
    /\ "prepare_wboit_textures" \notin prepared
    /\ \E order \in QueryOrders(wboit_views) :
            PrepareDone("prepare_wboit_textures",
                        PrepareTextures("wboit", order, PrepareState))
    /\ UNCHANGED <<mainVars, gpuVars, frame, gview, nodes, extracted, histoTextures, pipelineId,
                   bindGroups, phases, cdfPipelineReady, log, hadTextures, lastFrame>>

\* for (entity, camera, he_settings) in &cameras
he_settings(v) == Get(heSettings[v])

DivCeil(a, b) == (a + b - 1) \div b

\* HistogramParams for a view of known size
HistogramParamsOf(v) ==
    LET size == Get(viewport[v])
        s == he_settings(v)
    IN [tile_count_x |-> DivCeil(size, s.tile_size),
        tile_count_y |-> DivCeil(size, s.tile_size),
        num_bins |-> s.num_bins,
        tile_size |-> s.tile_size,
        max_depth |-> s.max_depth]

\* A comparison that forgets the number of bins.
NeedsRecreateTilesOnly(existing, params) ==
    IF IsSome(existing)
    THEN \/ Get(existing).tile_count_x /= params.tile_count_x
         \/ Get(existing).tile_count_y /= params.tile_count_y
    ELSE TRUE

NeedsRecreate(existing, params) ==
    IF IsSome(existing)
    THEN \/ Get(existing).tile_count_x /= params.tile_count_x
         \/ Get(existing).tile_count_y /= params.tile_count_y
         \/ Get(existing).num_bins /= params.num_bins
    ELSE TRUE

\* A new histogram buffer (zero-initialised), CDF texture and parameter buffer;
\* `created` tells the objects of one creation from those of another.
NewHistogramTextures(params) ==
    [tile_count_x |-> params.tile_count_x,
     tile_count_y |-> params.tile_count_y,
     num_bins |-> params.num_bins,
     created |-> frame,
     histogram |-> {},
     cdf |-> ZeroCdf,
     params |-> params]

PrepareHistogram(existing, v) ==
    IF v \notin he_wboit_views \/ viewport[v] = None THEN existing
    ELSE IF NeedsRecreate(existing, HistogramParamsOf(v))
         THEN Some(NewHistogramTextures(HistogramParamsOf(v)))
         ELSE Some([Get(existing) EXCEPT !.params = HistogramParamsOf(v)])

prepare_histogram_wboit_textures ==
    /\ pc = "PrepareResources"
    /\ "prepare_histogram_wboit_textures" \notin prepared
    /\ \E order \in QueryOrders(he_wboit_views) :
            PrepareDone("prepare_histogram_wboit_textures",
                        PrepareTextures("he_wboit", order, PrepareState))
    /\ histoTextures' = [v \in Views |-> PrepareHistogram(histoTextures[v], v)]
    /\ UNCHANGED <<mainVars, gpuVars, frame, gview, nodes, extracted, pipelineId, bindGroups, phases,
                   cdfPipelineReady, log, hadTextures, lastFrame>>

(***************************************************************************)
(* PrepareBindGroups: rebuilt every frame from the components of the view. *)
(***************************************************************************)
\* The composite bind group: accum and revealage[frame_index]
CompositeBindGroup(wt) == [accum |-> wt.id, revealage |-> wt.id, index |-> wt.frame_index]

prepare_wboit_composite_bind_group ==
    /\ pc = "prepare_wboit_composite_bind_group"
    /\ pc' = After(pc)
    /\ bindGroups' = [v \in Views |->
                        IF v \in wboit_views /\ IsSome(wboitTextures[v])
                        THEN [bindGroups[v] EXCEPT
                                !.naive = Some(CompositeBindGroup(Get(wboitTextures[v])))]
                        ELSE bindGroups[v]]
    /\ UNCHANGED <<mainVars, gpuVars, obsVars, frame, prepared, gview, nodes, extracted, wboitTextures,
                   insertCmd, histoTextures, pipelineId, phases, textureCache, textures,
                   cdfPipelineReady, log>>

\* A bind group that binds the write target itself.
PrevIndexSame(fi) == fi
\* accum_bind_groups[fi] binds prev_revealage = revealage[1 - fi]
PrevIndex(fi) == 1 - fi

HistoBindGroups(wt) ==
    [accum |-> [fi \in {0, 1} |-> [revealage |-> wt.id, index |-> PrevIndex(fi)]],
     cdf |-> TRUE,
     composite |-> CompositeBindGroup(wt)]

\* Host: the camera driver runs the Core3d graph of one Camera3d after the
\* other; 0 when no camera is left.
NextCamera(after) ==
    IF \E c \in camera3d : c > after
    THEN CHOOSE c \in camera3d : c > after /\ \A d \in camera3d : d > after => c <= d
    ELSE 0

prepare_histo_wboit_bind_groups ==
    /\ pc = "prepare_histo_wboit_bind_groups"
    /\ pc' = IF NextCamera(0) = 0 THEN "cleanup" ELSE "graph"
    /\ gview' = NextCamera(0)
    /\ bindGroups' = [v \in Views |->
                        IF /\ v \in he_wboit_views
                           /\ IsSome(wboitTextures[v])
                           /\ IsSome(histoTextures[v])
                        THEN [bindGroups[v] EXCEPT
                                !.he = Some(HistoBindGroups(Get(wboitTextures[v])))]
                        ELSE bindGroups[v]]
    /\ UNCHANGED <<mainVars, gpuVars, obsVars, frame, prepared, nodes, extracted, wboitTextures,
                   insertCmd, histoTextures, pipelineId, phases, textureCache, textures,
                   cdfPipelineReady, log>>

(***************************************************************************)
(* The render graph, run for one view after the other.  The edges of the   *)
(* two plugins order each chain between MainTransparentPass and            *)
(* EndMainPass; nodes of different chains run in either order.             *)
(***************************************************************************)
Nodes == {"MainTransparentPass", "WboitAccumPass", "WboitCompositePass",
          "HistoWboitAccumPass", "HistoCdfBuildPass", "HistoWboitCompositePass",
          "EndMainPass"}

\* add_render_graph_edges(Core3d, (MainTransparentPass, WboitAccumPass,
\*                                 WboitCompositePass, EndMainPass))
NaiveEdges == {<<"MainTransparentPass", "WboitAccumPass">>,
               <<"WboitAccumPass", "WboitCompositePass">>,
               <<"WboitCompositePass", "EndMainPass">>}

\* The HE chain without the edge from the accumulation pass to the CDF build.
HistoEdgesUnordered == {<<"MainTransparentPass", "HistoWboitAccumPass">>,
                        <<"MainTransparentPass", "HistoCdfBuildPass">>,
                        <<"HistoCdfBuildPass", "HistoWboitCompositePass">>,
                        <<"HistoWboitCompositePass", "EndMainPass">>}
\* add_render_graph_edges(Core3d, (MainTransparentPass, HistoWboitAccumPass,
\*                                 HistoCdfBuildPass, HistoWboitCompositePass, EndMainPass))
HistoEdges == {<<"MainTransparentPass", "HistoWboitAccumPass">>,
               <<"HistoWboitAccumPass", "HistoCdfBuildPass">>,
               <<"HistoCdfBuildPass", "HistoWboitCompositePass">>,
               <<"HistoWboitCompositePass", "EndMainPass">>}

Before(n) == {e[1] : e \in {d \in NaiveEdges \cup HistoEdges : d[2] = n}}

Runnable(n) ==
    /\ pc = "graph"
    /\ n \notin nodes
    /\ Before(n) \subseteq nodes

\* What a node run leaves in the log.
Event(node) ==
    [node |-> node, work |-> FALSE, items |-> {}, tex |-> 0, index |-> 0,
     accum |-> ZeroContent, revealage |-> ZeroContent,
     prevTex |-> 0, prevIndex |-> 0, prev |-> ZeroContent, cdf |-> ZeroCdf, histogram |-> {}]

Ran(n, event) ==
    /\ Runnable(n)
    /\ nodes' = nodes \cup {n}
    /\ log' = [log EXCEPT ![gview] = Append(@, event)]
    /\ UNCHANGED <<mainVars, gpuVars, obsVars, frame, pc, prepared, gview, extracted, wboitTextures,
                   insertCmd, pipelineId, bindGroups, phases, textureCache, cdfPipelineReady>>

\* Host: the standard transparent pass draws the Transparent3d phase of the view.
MainTransparentPass ==
    /\ Runnable("MainTransparentPass")
    /\ LET items == PhaseItems(Some(phases[gview].transparent))
       IN /\ Ran("MainTransparentPass",
                 [Event("MainTransparentPass") EXCEPT !.work = items /= {}, !.items = items])
          /\ UNCHANGED <<textures, histoTextures>>

\* LoadOp::Clear of both targets, then the phase is rendered into them.
AccumTargets(tex, wt, content) ==
    [tex EXCEPT ![wt.id] = [@ EXCEPT !.accum = content,
                                     !.revealage = [@ EXCEPT ![wt.frame_index] = content]]]

\* The two early returns of an accumulation pass: no phase entry, empty phase.
AccumSkipped(phase) == ~IsSome(phase) \/ Get(phase) = <<>>

\* WboitAccumNode::run; the view query needs WboitTextures.
WboitAccumPass ==
    /\ Runnable("WboitAccumPass")
    /\ LET v == gview
           wt == wboitTextures[v]
           phase == phases[v].wboit
           content == Written(v, "wboit", frame, PhaseItems(phase))
       IN IF ~IsSome(wt) \/ AccumSkipped(phase)
          THEN /\ Ran("WboitAccumPass", Event("WboitAccumPass"))
               /\ UNCHANGED <<textures, histoTextures>>
          ELSE /\ Ran("WboitAccumPass",
                      [Event("WboitAccumPass") EXCEPT
                           !.work = TRUE, !.items = PhaseItems(phase), !.tex = Get(wt).id,
                           !.index = Get(wt).frame_index, !.accum = content,
                           !.revealage = content])
               /\ textures' = AccumTargets(textures, Get(wt), content)
               /\ UNCHANGED histoTextures

\* get_render_pipeline(id): Some once the queued pipeline has been compiled
RenderPipeline(state) == state = "ready"

\* The fullscreen draw of a composite pass reads the two textures of its bind group.
CompositeEvent(node, bg) ==
    [Event(node) EXCEPT
        !.work = TRUE, !.tex = bg.accum, !.index = bg.index,
        !.accum = textures[bg.accum].accum,
        !.revealage = textures[bg.revealage].revealage[bg.index]]

\* WboitCompositeNode::run
WboitCompositePass ==
    /\ Runnable("WboitCompositePass")
    /\ LET v == gview
           bg == bindGroups[v].naive
       IN /\ IF pipelineId[v].naive = "none" \/ ~IsSome(bg) \/ ~RenderPipeline(pipelineId[v].naive)
             THEN Ran("WboitCompositePass", Event("WboitCompositePass"))
             ELSE Ran("WboitCompositePass", CompositeEvent("WboitCompositePass", Get(bg)))
          /\ UNCHANGED <<textures, histoTextures>>

\* Fragment shader of the HE accumulation pass: every fragment adds one to
\* the counter of its (tile, bin).
CountFragments(histogram) == histogram \cup {frame}

\* histo_wboit_accum_pass; the view query needs WboitTextures, and the draw
\* of an item needs HistoAccumBindGroups (SetHistoAccumBindGroup).
HistoWboitAccumPass ==
    /\ Runnable("HistoWboitAccumPass")
    /\ LET v == gview
           wt == wboitTextures[v]
           phase == phases[v].histo
           bg == bindGroups[v].he
           drawn == IF IsSome(bg) /\ IsSome(histoTextures[v]) THEN PhaseItems(phase) ELSE {}
           content == Written(v, "he_wboit", frame, drawn)
           bound == Get(bg).accum[Get(wt).frame_index]
       IN IF ~IsSome(wt) \/ AccumSkipped(phase)
          THEN /\ Ran("HistoWboitAccumPass", Event("HistoWboitAccumPass"))
               /\ UNCHANGED <<textures, histoTextures>>
          ELSE IF drawn = {}
          THEN /\ Ran("HistoWboitAccumPass",
                      [Event("HistoWboitAccumPass") EXCEPT
                           !.work = TRUE, !.tex = Get(wt).id, !.index = Get(wt).frame_index,
                           !.accum = content, !.revealage = content])
               /\ textures' = AccumTargets(textures, Get(wt), content)
               /\ UNCHANGED histoTextures
          ELSE /\ Ran("HistoWboitAccumPass",
                      [Event("HistoWboitAccumPass") EXCEPT
                           !.work = TRUE, !.items = drawn, !.tex = Get(wt).id,
                           !.index = Get(wt).frame_index, !.accum = content,
                           !.revealage = content,
                           !.prevTex = bound.revealage, !.prevIndex = bound.index,
                           !.prev = textures[bound.revealage].revealage[bound.index],
                           !.cdf = Get(histoTextures[v]).cdf,
                           !.histogram = Get(histoTextures[v]).histogram])
               /\ textures' = AccumTargets(textures, Get(wt), content)
               /\ histoTextures' = [histoTextures EXCEPT
                                       ![v] = Some([Get(@) EXCEPT
                                                       !.histogram = CountFragments(@)])]

\* get_compute_pipeline(id): Some once the compute pipeline has been compiled
ComputePipeline == cdfPipelineReady

\* The CDF build shader: per tile the prefix sums of the counts, normalised,
\* are written to the CDF texture and the counts of the tile are set to zero.
CdfBuildShader(h) == [h EXCEPT !.cdf = [builtAt |-> frame, from |-> h.histogram],
                               !.histogram = {}]

\* HistoCdfBuildNode::run
HistoCdfBuildPass ==
    /\ Runnable("HistoCdfBuildPass")
    /\ LET v == gview
           h == histoTextures[v]
       IN IF ~IsSome(h) \/ ~IsSome(bindGroups[v].he) \/ ~ComputePipeline
          THEN /\ Ran("HistoCdfBuildPass", Event("HistoCdfBuildPass"))
               /\ UNCHANGED <<textures, histoTextures>>
          ELSE /\ Ran("HistoCdfBuildPass",
                      [Event("HistoCdfBuildPass") EXCEPT
                           !.work = TRUE, !.histogram = Get(h).histogram,
                           !.cdf = CdfBuildShader(Get(h)).cdf])
               /\ histoTextures' = [histoTextures EXCEPT ![v] = Some(CdfBuildShader(Get(h)))]
               /\ UNCHANGED textures

\* histo_wboit_composite_pass
HistoWboitCompositePass ==
    /\ Runnable("HistoWboitCompositePass")
    /\ LET v == gview
           bg == bindGroups[v].he
       IN /\ IF pipelineId[v].he = "none" \/ ~IsSome(bg) \/ ~RenderPipeline(pipelineId[v].he)
             THEN Ran("HistoWboitCompositePass", Event("HistoWboitCompositePass"))
             ELSE Ran("HistoWboitCompositePass",
                      CompositeEvent("HistoWboitCompositePass", Get(bg).composite))
          /\ UNCHANGED <<textures, histoTextures>>

\* Host: the end of the main pass of the view; the graph of the next view follows.
EndMainPass ==
    /\ Runnable("EndMainPass")
    /\ log' = [log EXCEPT ![gview] = Append(@, Event("EndMainPass"))]
    /\ nodes' = {}
    /\ gview' = NextCamera(gview)
    /\ pc' = IF NextCamera(gview) = 0 THEN "cleanup" ELSE "graph"
    /\ UNCHANGED <<mainVars, gpuVars, obsVars, frame, prepared, extracted, wboitTextures, insertCmd,
                   histoTextures, pipelineId, bindGroups, phases, textureCache, textures,
                   cdfPipelineReady>>

(***************************************************************************)
(* Cleanup.  Host: TextureCache::update ages the textures nobody took and  *)
(* forgets those unused for three frames; a texture lives on while a       *)
(* component or bind group of a view still holds it.                       *)
(***************************************************************************)
Aged(entries) ==
    SelectSeq([i \in 1..Len(entries) |->
                  [entries[i] EXCEPT !.unused = @ + 1, !.taken = FALSE]],
              LAMBDA e : e.unused < 3)

Held ==
    {Get(wboitTextures[v]).id : v \in {w \in Views : IsSome(wboitTextures[w])}}
    \cup {Get(bindGroups[v].naive).accum : v \in {w \in Views : IsSome(bindGroups[w].naive)}}
    \cup {Get(bindGroups[v].he).composite.accum :
            v \in {w \in Views : IsSome(bindGroups[w].he)}}

EndFrame ==
    /\ pc = "cleanup"
    /\ pc' = "main"
    /\ textureCache' = [k \in CacheKeys |-> Aged(textureCache[k])]
    /\ textures' = [id \in {i \in DOMAIN textures :
                              \/ i \in Held
                              \/ \E k \in CacheKeys : \E j \in 1..Len(textureCache'[k]) :
                                    textureCache'[k][j].id = i} |-> textures[id]]
    /\ UNCHANGED <<mainVars, gpuVars, obsVars, frame, prepared, gview, nodes, extracted, wboitTextures,
                   insertCmd, histoTextures, pipelineId, bindGroups, phases,
                   cdfPipelineReady, log>>

RenderStep ==
    \/ extract_wboit_camera_phases
    \/ extract_histo_wboit_camera_phases
    \/ queue_material_meshes
    \/ queue_wboit_meshes
    \/ drain_transparent_for_wboit
    \/ queue_histo_wboit_meshes
    \/ drain_transparent_for_he_wboit
    \/ queue_wboit_composite_pipeline
    \/ queue_histo_composite_pipeline
    \/ sort_phase_system_WboitAccum3d
    \/ sort_phase_system_HistoAccum3d
    \/ prepare_wboit_textures
    \/ prepare_histogram_wboit_textures
    \/ prepare_wboit_composite_bind_group
    \/ prepare_histo_wboit_bind_groups
    \/ MainTransparentPass
    \/ WboitAccumPass
    \/ WboitCompositePass
    \/ HistoWboitAccumPass
    \/ HistoCdfBuildPass
    \/ HistoWboitCompositePass
    \/ EndMainPass
    \/ EndFrame

Next ==
    \/ \E v \in Views : InsertWboitSettings(v)
    \/ \E v \in Views : RemoveWboitSettings(v)
    \/ \E v \in Views : InsertHEWboitSettings(v)
    \/ \E v \in Views : RemoveHEWboitSettings(v)
    \/ \E v \in Views : \E size \in {None} \cup {Some(x) : x \in Sizes} : SetViewport(v, size)
    \/ \E S \in Scenes : SetScene(S)
    \/ BeginFrame
    \/ extract_wboit_camera_phases
    \/ extract_histo_wboit_camera_phases
    \/ queue_material_meshes
    \/ queue_wboit_meshes
    \/ drain_transparent_for_wboit
    \/ queue_histo_wboit_meshes
    \/ drain_transparent_for_he_wboit
    \/ queue_wboit_composite_pipeline
    \/ queue_histo_composite_pipeline
    \/ sort_phase_system_WboitAccum3d
    \/ sort_phase_system_HistoAccum3d
    \/ prepare_wboit_textures
    \/ prepare_histogram_wboit_textures
    \/ prepare_wboit_composite_bind_group
    \/ prepare_histo_wboit_bind_groups
    \/ MainTransparentPass
    \/ WboitAccumPass
    \/ WboitCompositePass
    \/ HistoWboitAccumPass
    \/ HistoCdfBuildPass
    \/ HistoWboitCompositePass
    \/ EndMainPass
    \/ EndFrame

Spec == Init /\ [][Next]_vars

\* The application with the Update schedule and cameras that change their
\* Msaa component.
NextMsaa ==
    \/ \E v \in Views : InsertWboitSettings(v)
    \/ \E v \in Views : RemoveWboitSettings(v)
    \/ \E v \in Views : InsertHEWboitSettings(v)
    \/ \E v \in Views : RemoveHEWboitSettings(v)
    \/ \E v \in Views : \E m \in {"Off", "Sample4"} : SetMsaa(v, m)
    \/ check_msaa_wboit
    \/ check_msaa_he_wboit
    \/ BeginFrameAfterUpdate
    \/ RenderStep

SpecMsaa == Init /\ [][NextMsaa]_vars

\* The application with cameras whose HEWboitSettings fields change.
NextHisto ==
    \/ \E v \in Views : InsertHEWboitSettings(v)
    \/ \E v \in Views : \E s \in HEWboitSettingsValues : SetHEWboitSettings(v, s)
    \/ \E v \in Views : \E size \in {None} \cup {Some(x) : x \in Sizes} : SetViewport(v, size)
    \/ BeginFrame
    \/ RenderStep

SpecHisto == Init /\ [][NextHisto]_vars

\* The application whose cameras are spawned opted in, are resized and opt out.
NextResize ==
    \/ \E v \in Views : RemoveWboitSettings(v)
    \/ \E v \in Views : RemoveHEWboitSettings(v)
    \/ \E v \in Views : \E size \in Sizes : SetViewport(v, Some(size))
    \/ BeginFrame
    \/ RenderStep

SpecResize == InitSpawned /\ [][NextResize]_vars

\* The application whose cameras opt in and turn HDR rendering on and off.
NextHdr ==
    \/ \E v \in Views : InsertWboitSettings(v)
    \/ \E v \in Views : InsertHEWboitSettings(v)
    \/ \E v \in Views : \E on \in BOOLEAN : SetHdr(v, on)
    \/ BeginFrame
    \/ RenderStep

SpecHdr == Init /\ [][NextHdr]_vars

\* The application whose cameras are spawned opted in and lose and regain
\* their viewport size.
NextSkip ==
    \/ \E v \in Views : \E size \in {None} \cup {Some(x) : x \in Sizes} : SetViewport(v, size)
    \/ BeginFrame
    \/ RenderStep

SpecSkip == InitSpawned /\ [][NextSkip]_vars

\* The application on a host whose view key cache misses views.
NextQueue ==
    \/ \E v \in Views : InsertWboitSettings(v)
    \/ \E v \in Views : InsertHEWboitSettings(v)
    \/ BeginFrame
    \/ RenderStep

SpecQueue == InitQueue /\ [][NextQueue]_vars

\* The demo: the camera is spawned with WboitSettings, the user switches its mode.
NextSwitch ==
    \/ \E mode \in {"none", "naive", "he"} : toggle_mode(mode)
    \/ BeginFrame
    \/ RenderStep

SpecSwitch == InitDemo /\ [][NextSwitch]_vars

\* The application with the Update and Last schedules and cameras whose depth
\* texture usages the application sets.
NextDepth ==
    \/ \E v \in Views : InsertWboitSettings(v)
    \/ \E v \in Views : InsertHEWboitSettings(v)
    \/ \E v \in Views : \E usages \in DepthUsageValues : SetDepthUsages(v, usages)
    \/ check_msaa_wboit
    \/ check_msaa_he_wboit
    \/ configure_depth_texture_usages_wboit
    \/ configure_depth_texture_usages_he_wboit
    \/ BeginFrameAfterLast
    \/ RenderStep

SpecDepth == Init /\ [][NextDepth]_vars

(***************************************************************************)
(* One dispatch of the CDF build pass, bin by bin.  The compute shader     *)
(* histo_cdf_build.wgsl is compiled without shader definitions, so its     *)
(* workgroup size is a constant of the shader: 64 lanes, lane i working on *)
(* bin i of the tile of its workgroup.  A lane reads the counts of its     *)
(* tile, stores prefix sum / total (0 for an empty tile) as a 16-bit float *)
(* in the Rgba16Float texel of its bin and sets its counter to zero.       *)
(***************************************************************************)
\* "each with 64 threads (= num_bins)"
WorkgroupSize == 64
Lanes == 0..(WorkgroupSize - 1)

Tiles(g) == (0..(g.tile_count_x - 1)) \X (0..(g.tile_count_y - 1))
Texels(g) == {<<t[1], t[2], bin>> : t \in Tiles(g), bin \in 0..(g.num_bins - 1)}
\* The counter of (tile, bin) in the linear histogram buffer.
BinIndex(g, t, bin) == (t[2] * g.tile_count_x + t[1]) * g.num_bins + bin
\* Bin `bin` of a tile has a lane: lane `bin` of the workgroup, if there is one.
HasLane(g, bin) == bin \in Lanes /\ bin < g.num_bins
TileIndex(g, t) == t[2] * g.tile_count_x + t[1]
TileAt(g, k) == <<k % g.tile_count_x, k \div g.tile_count_x>>

\* Round to nearest, ties to even.
RoundDiv(n, d) ==
    LET q == n \div d
        r == n % d
    IN IF 2 * r > d \/ (2 * r = d /\ q % 2 = 1) THEN q + 1 ELSE q

RECURSIVE Pow2(_)
Pow2(k) == IF k = 0 THEN 1 ELSE 2 * Pow2(k - 1)

\* 16-bit floats of [0, 1] are multiples of 2^-24; they are kept as that multiple.
F16One == Pow2(24)
RECURSIVE Exponent(_, _, _)
\* the e with 2^-(e+1) <= n/d < 2^-e, for 0 < n < d
Exponent(n, d, e) == IF 2 * n >= d THEN e ELSE Exponent(2 * n, d, e + 1)
\* n/d of [0, 1] stored in a 16-bit float: 11 significant bits, subnormal below 2^-14
F16(n, d) ==
    IF n = 0 THEN 0
    ELSE IF n >= d THEN F16One
    ELSE LET e == Exponent(n, d, 0)
         IN IF e >= 14 THEN RoundDiv(n * F16One, d)
            ELSE RoundDiv(n * Pow2(e + 11), d) * Pow2(13 - e)

RECURSIVE Scan(_, _, _, _, _)
\* The inclusive prefix sums of the counts of the bins lo..hi of tile t, as
\* the lanes of the workgroup add them up: halves first, then the carry.
Scan(buf, g, t, lo, hi) ==
    IF lo = hi THEN <<buf[BinIndex(g, t, lo)]>>
    ELSE LET mid == (lo + hi) \div 2
             left == Scan(buf, g, t, lo, mid)
             right == Scan(buf, g, t, mid + 1, hi)
             carry == left[Len(left)]
         IN left \o [i \in 1..Len(right) |-> right[i] + carry]
\* The prefix sums over the bins of tile t that have a lane.
PrefixSums(buf, g, t) ==
    Scan(buf, g, t, 0, (IF g.num_bins < WorkgroupSize THEN g.num_bins ELSE WorkgroupSize) - 1)

RECURSIVE AllPrefixSums(_, _, _)
\* The prefix sums of the tiles 0..k, in buffer order.
AllPrefixSums(buf, g, k) ==
    IF k < 0 THEN <<>>
    ELSE Append(AllPrefixSums(buf, g, k - 1), PrefixSums(buf, g, TileAt(g, k)))

\* What the lane of `bin` stores, from the prefix sums of its tile: sum / total.
CdfValue(sums, bin) ==
    IF sums[Len(sums)] = 0 THEN 0 ELSE F16(sums[bin + 1], sums[Len(sums)])

\* The workgroups of `groups`, all lanes: the buffer, the texture and the
\* texels stored to when they have run.
CdfBuildMain(g, groups, buf, tex, written) ==
    LET sums == AllPrefixSums(buf, g, g.tile_count_x * g.tile_count_y - 1)
        Works(t, bin) == t \in groups /\ HasLane(g, bin)
    IN [buf |-> [i \in DOMAIN buf |->
                    IF Works(TileAt(g, i \div g.num_bins), i % g.num_bins) THEN 0 ELSE buf[i]],
        tex |-> [c \in DOMAIN tex |->
                    IF Works(<<c[1], c[2]>>, c[3])
                    THEN CdfValue(sums[TileIndex(g, <<c[1], c[2]>>) + 1], c[3])
                    ELSE tex[c]],
        written |-> written \cup {c \in DOMAIN tex : Works(<<c[1], c[2]>>, c[3])}]

\* compute_pass.dispatch_workgroups(tile_count_x, tile_count_y, 1)
dispatch_workgroups ==
    /\ cdfStage = "recorded"
    /\ LET groups == (0..(cdfGeometry.tile_count_x - 1)) \X (0..(cdfGeometry.tile_count_y - 1))
           out == CdfBuildMain(cdfGeometry, groups, histogramBuffer, cdfTexture, cdfWritten)
       IN /\ histogramBuffer' = out.buf
          /\ cdfTexture' = out.tex
          /\ cdfWritten' = out.written
    /\ cdfStage' = "done"
    /\ UNCHANGED <<mainVars, obsVars, texelVars, createVars, pipelineFormat, cdfGeometry, frame, pc, prepared, gview, nodes, extracted,
                   wboitTextures, insertCmd, histoTextures, pipelineId, bindGroups, phases,
                   textureCache, textures, cdfPipelineReady, log>>

\* The bins that hold fragments in the dispatches looked into.
SampleBins == {0, 1, 31, 63, 64, 127}
\* Counts of a tile with c1 fragments in bin b1 and c2 more in bin b2.
Counts(g, t, b1, c1, b2, c2) ==
    [i \in 0..(g.tile_count_x * g.tile_count_y * g.num_bins - 1) |->
        (IF i = BinIndex(g, t, b1) THEN c1 ELSE 0) + (IF i = BinIndex(g, t, b2) THEN c2 ELSE 0)]
\* The geometries prepare_histogram_wboit_textures gives the resources.
Geometries ==
    {[tile_count_x |-> DivCeil(size, s.tile_size),
      tile_count_y |-> DivCeil(size, s.tile_size),
      num_bins |-> s.num_bins] : size \in Sizes, s \in HEWboitSettingsValues}

\* The accumulation pass has counted the fragments of one tile (the first or
\* the last) into a zeroed buffer; the CDF texture is new; the pass is encoded.
InitCdfBuild ==
    /\ camera3d = Views
    /\ viewKeys = Views
    /\ settings = SpawnedWith("he")
    /\ BeforeFirstFrame
    /\ cdfGeometry \in Geometries
    /\ \E t \in {<<0, 0>>, <<cdfGeometry.tile_count_x - 1, cdfGeometry.tile_count_y - 1>>} :
       \E b1, b2 \in {b \in SampleBins : b < cdfGeometry.num_bins} :
       \E c1 \in 0..2 : \E c2 \in 0..1 :
            /\ b1 <= b2 /\ c2 <= c1
            /\ histogramBuffer = Counts(cdfGeometry, t, b1, c1, b2, c2)
    /\ cdfTexture = [c \in Texels(cdfGeometry) |-> 0]
    /\ cdfWritten = {}
    /\ cdfStage = "recorded"
    /\ NoFragments
    /\ NoCreation

SpecCdfBuild == InitCdfBuild /\ [][dispatch_workgroups]_vars

(***************************************************************************)
(* One texel of the revealage target during an accumulation pass: cleared  *)
(* to 1.0, then one blend per fragment of the pixel, in the order the draw *)
(* calls come.  The target is R8Unorm: the blend unit reads the stored     *)
(* value v as v / 255 and stores its result rounded to the nearest 1/255.  *)
(***************************************************************************)
\* The fragments of the pixel: at most this many.
MaxFragments == 3
UnormMax == 255
\* LoadOp::Clear(LinearRgba::new(1.0, 0.0, 0.0, 0.0)) in an R8Unorm texel
ClearedRevealage == UnormMax
\* src_factor Zero, dst_factor OneMinusSrc, operation Add, stored as R8Unorm:
\* src * 0 + dst * (1 - src) for src = c / 5.  No product of an integer and a
\* number of fifths lies half-way between two integers.
BlendRevealage(dst, c) == RoundDiv(dst * (5 - c), 5)

BagSize(bag) == bag[1] + bag[2] + bag[3] + bag[4]

\* The draw of one of the remaining fragments reaches the pixel.
DrawFragment(c) ==
    /\ toBlend[c] > 0
    /\ revealageTexel' = BlendRevealage(revealageTexel, c)
    /\ toBlend' = [toBlend EXCEPT ![c] = @ - 1]
    /\ blended' = [blended EXCEPT ![c] = @ + 1]
    /\ UNCHANGED <<mainVars, obsVars, cdfVars, createVars, pipelineFormat, frame, pc, prepared, gview, nodes, extracted,
                   wboitTextures, insertCmd, histoTextures, pipelineId, bindGroups, phases,
                   textureCache, textures, cdfPipelineReady, log>>

\* The pass has cleared the texel; the fragments of the pixel are to be drawn.
InitBlend ==
    /\ camera3d = Views
    /\ viewKeys = Views
    /\ settings = SpawnedWith("naive")
    /\ BeforeFirstFrame
    /\ NoDispatch
    /\ revealageTexel = ClearedRevealage
    /\ toBlend \in [Coverages -> 0..MaxFragments]
    /\ BagSize(toBlend) <= MaxFragments
    /\ blended = [c \in Coverages |-> 0]
    /\ NoCreation

SpecBlend == InitBlend /\ [][\E c \in Coverages : DrawFragment(c)]_vars


(***************************************************************************)
(* One creation of the histogram resources of a view, with the arithmetic  *)
(* of the code: the tile counts and the byte size of the histogram buffer  *)
(* are u32 values.  Numbers that may exceed 31 bits are kept as three      *)
(* 16-bit limbs, least significant first; a u32 is the two low limbs.      *)
(***************************************************************************)
Limb == 65536

Wide(n) == <<n % Limb, n \div Limb, 0>>

\* The exact product of a three-limb number and a factor below 2^15.
MulWide(w, f) ==
    LET p1 == w[1] * f
        p2 == w[2] * f + p1 \div Limb
        p3 == w[3] * f + p2 \div Limb
    IN <<p1 % Limb, p2 % Limb, p3>>

\* as u32 of an exact value: the value modulo 2^32
WrapU32(w) == <<w[1], w[2], 0>>
FitsU32(w) == w[3] = 0

\* a * b in u32 arithmetic: the wrapped product, and whether it overflowed
MulU32(a, f) == [value |-> WrapU32(MulWide(a.value, f)),
                 overflowed |-> a.overflowed \/ ~FitsU32(MulWide(a.value, f))]

\* (tile_count_x * tile_count_y * num_bins * 4) as u64, in the arithmetic of
\* mathematics: a stand-in for a computation done in u64 from the start
HistogramSizeExact(tx, ty, bins) ==
    [value |-> MulWide(MulWide(MulWide(Wide(tx), ty), bins), 4), overflowed |-> FALSE]

\* (tile_count_x * tile_count_y * num_bins * 4) as u64
HistogramSize(tx, ty, bins) ==
    MulU32(MulU32(MulU32([value |-> Wide(tx), overflowed |-> FALSE], ty), bins), 4)

\* The part of prepare_histogram_wboit_textures that follows needs_recreate,
\* for a view without HistogramWboitTextures.  A division by zero panics; an
\* overflowing multiplication panics in a build with overflow checks and
\* wraps in a build without.
CreatedFrom(in) ==
    LET idle == [status |-> "none", tile_count_x |-> 0, tile_count_y |-> 0, num_bins |-> 0,
                 histogram_size |-> <<0, 0, 0>>, cdf_size |-> <<0, 0, 0>>]
        tx == DivCeil(in.width, in.tile_size)
        ty == DivCeil(in.height, in.tile_size)
        size == HistogramSize(tx, ty, in.num_bins)
    IN IF in.tile_size = 0 THEN [idle EXCEPT !.status = "panicked"]
       ELSE IF size.overflowed /\ in.overflow_checks
       THEN [idle EXCEPT !.status = "panicked", !.tile_count_x = tx, !.tile_count_y = ty]
       ELSE [status |-> "created", tile_count_x |-> tx, tile_count_y |-> ty,
             num_bins |-> in.num_bins, histogram_size |-> size.value,
             cdf_size |-> <<tx, ty, in.num_bins>>]

create_histogram_resources ==
    /\ histoCreated.status = "pending"
    /\ histoCreated' = CreatedFrom(histoInput)
    /\ UNCHANGED <<mainVars, obsVars, cdfVars, texelVars, histoInput, pipelineFormat, frame, pc, prepared, gview,
                   nodes, extracted, wboitTextures, insertCmd, histoTextures, pipelineId,
                   bindGroups, phases, textureCache, textures, cdfPipelineReady, log>>

\* The viewport sizes and settings the creation is looked at for.
ViewportWidths == {1, 40, 1920, 3840}
ViewportHeights == {1, 30, 1080, 2160}
TileSizes == {0, 1, 7, DefaultTileSize}
BinCounts == {1, DefaultNumBins, 256}

InitCreate ==
    /\ camera3d = Views
    /\ viewKeys = Views
    /\ settings = SpawnedWith("he")
    /\ BeforeFirstFrame
    /\ NoDispatch
    /\ NoFragments
    /\ histoInput \in [width : ViewportWidths, height : ViewportHeights,
                       tile_size : TileSizes, num_bins : BinCounts,
                       overflow_checks : BOOLEAN]
    /\ histoCreated = [status |-> "pending", tile_count_x |-> 0, tile_count_y |-> 0,
                       num_bins |-> 0, histogram_size |-> <<0, 0, 0>>,
                       cdf_size |-> <<0, 0, 0>>]

SpecCreate == InitCreate /\ [][create_histogram_resources]_vars

(***************************************************************************)
(* Properties                                                              *)
(***************************************************************************)
\* The visible transparent meshes, as a set.
VisibleItems == {scene[i] : i \in 1..Len(scene)}
\* The runs of `node` recorded for view v in the current frame.
Runs(v, node) == {log[v][i] : i \in {j \in 1..Len(log[v]) : log[v][j].node = node}}
Positions(v, node) == {j \in 1..Len(log[v]) : log[v][j].node = node}
HasRun(v, node) == Positions(v, node) /= {}
Count(seq, x) == Cardinality({i \in 1..Len(seq) : seq[i] = x})
OitCount(phase, x) == IF IsSome(phase) THEN Count(Get(phase), x) ELSE 0
\* The frame has got past the system `name` of the schedule.
StageIndex ==
    [name \in {Schedule[i] : i \in 1..Len(Schedule)} \cup {"main"} |->
        IF name = "main" THEN 0 ELSE CHOOSE i \in 1..Len(Schedule) : Schedule[i] = name]
Past(name) == StageIndex[pc] > StageIndex[name]
InFrame == pc /= "main"
Marked(v) == extracted[v].naive \/ extracted[v].he
OnlyNaive(v) == extracted[v].naive /\ ~extracted[v].he
OnlyHE(v) == extracted[v].he /\ ~extracted[v].naive
\* The runs of the HE accumulation pass of v that drew items this frame.
HeDraws(v) == {e \in Runs(v, "HistoWboitAccumPass") : e.items /= {}}

\* C1: once the resources of a frame are prepared, every view of known size
\* that had WBOIT textures when preparation began has had frame_index flipped
\* exactly once, and a view that received its textures in this frame has
\* frame_index = 0 and was not flipped.
C1_FlippedExactlyOnce ==
    Past("PrepareResources") =>
        \A v \in Views :
            /\ (hadTextures[v] /\ Marked(v) /\ IsSome(viewport[v])) => flips[v] = 1
            /\ (~hadTextures[v] /\ IsSome(wboitTextures[v])) =>
                    (flips[v] = 0 /\ Get(wboitTextures[v]).frame_index = 0)

\* C2: in a frame in which an opted-in view has no item in its OIT phase, a
\* composite pass that draws for the view reads the cleared values
\* (accum = 0, revealage = 1).
C2_EmptyPhaseCompositeReadsCleared ==
    \A v \in Views :
        /\ (OnlyNaive(v) /\ phases[v].wboit = Some(<<>>)) =>
                \A e \in Runs(v, "WboitCompositePass") :
                    e.work => (IsCleared(e.accum) /\ IsCleared(e.revealage))
        /\ (OnlyHE(v) /\ phases[v].histo = Some(<<>>)) =>
                \A e \in Runs(v, "HistoWboitCompositePass") :
                    e.work => (IsCleared(e.accum) /\ IsCleared(e.revealage))

\* C3: when the HE accumulation pass of a histogram-active view draws, it writes
\* revealage[frame_index] and the texture bound as prev_revealage is
\* revealage[1 - frame_index], holding what the accumulation pass of the same
\* view produced in the frame before (the view was histogram-active then).
C3_PrevRevealageIsLastFrame ==
    \A v \in Views :
        (OnlyHE(v) /\ lastFrame[v].he) =>
            \A e \in HeDraws(v) :
                /\ e.index = Get(wboitTextures[v]).frame_index
                /\ e.prevIndex = 1 - e.index
                /\ e.prev = Written(v, "he_wboit", frame - 1, lastFrame[v].items)

\* C4: the CDF the HE accumulation pass of frame N reads was built by the CDF
\* build pass of frame N-1 and from counts of frame N-1 only.
C4_CdfOneFrameOld ==
    \A v \in Views :
        (OnlyHE(v) /\ lastFrame[v].he /\ lastFrame[v].items /= {}) =>
            \A e \in HeDraws(v) :
                /\ e.cdf.builtAt = frame - 1
                /\ e.cdf.from \subseteq {frame - 1}

\* C5: the histogram buffer holds no counts when the HE accumulation pass of a
\* histogram-active view starts.
C5_HistogramZeroAtAccumStart ==
    \A v \in Views : OnlyHE(v) => \A e \in HeDraws(v) : e.histogram = {}

\* C6: within a frame the node runs of a view are recorded in the order
\* main transparent pass, accumulation pass, (HE) CDF build pass, composite
\* pass, end of the main pass, for each of the two chains.
Ordered(v, first, second) ==
    \A j \in Positions(v, second) : \E i \in Positions(v, first) : i < j
C6_PassOrder ==
    \A v \in Views :
        /\ Ordered(v, "MainTransparentPass", "WboitAccumPass")
        /\ Ordered(v, "WboitAccumPass", "WboitCompositePass")
        /\ Ordered(v, "WboitCompositePass", "EndMainPass")
        /\ Ordered(v, "MainTransparentPass", "HistoWboitAccumPass")
        /\ Ordered(v, "HistoWboitAccumPass", "HistoCdfBuildPass")
        /\ Ordered(v, "HistoCdfBuildPass", "HistoWboitCompositePass")
        /\ Ordered(v, "HistoWboitCompositePass", "EndMainPass")
\* An HE view whose three passes all did work in the frame, in that order.
C6_Witness ==
    \E v \in Views :
        /\ HasRun(v, "EndMainPass")
        /\ \A n \in {"HistoWboitAccumPass", "HistoCdfBuildPass", "HistoWboitCompositePass"} :
                \E e \in Runs(v, n) : e.work
        /\ HasRun(v, "WboitCompositePass")

\* C7: the standard transparent pass of an opted-in view draws nothing, so no
\* item is drawn by both the standard pass and an accumulation pass; the list
\* of a view without a marker is what the host queued, before and after the
\* drain steps.
C7_DrainedForOptedIn ==
    \A v \in Views :
        /\ (Marked(v) /\ Past("drain_transparent_for_he_wboit")) =>
                phases[v].transparent = <<>>
        /\ Marked(v) =>
                \A e \in Runs(v, "MainTransparentPass") :
                    /\ e.items = {}
                    /\ \A n \in {"WboitAccumPass", "HistoWboitAccumPass"} :
                            \A a \in Runs(v, n) : a.items \cap e.items = {}
        /\ (~Marked(v) /\ Past("queue_material_meshes")) =>
                phases[v].transparent = scene
\* One view opted in, drained and accumulated; the other without a marker and
\* drawn by the standard pass.
C7_Witness ==
    \E v, w \in Views :
        /\ Marked(v) /\ ~Marked(w)
        /\ \E e \in Runs(v, "MainTransparentPass") : e.items = {}
        /\ \E a \in Runs(v, "WboitAccumPass") \cup Runs(v, "HistoWboitAccumPass") :
                a.items /= {}
        /\ \E e \in Runs(w, "MainTransparentPass") : e.items = VisibleItems /\ scene /= <<>>

\* C8: after the queue stage every item the host queued for an opted-in view,
\* and whose specialization did not fail, is in exactly one OIT phase of the
\* view, exactly once, and not in the standard list.
C8_QueuedExactlyOnce ==
    Past("drain_transparent_for_he_wboit") =>
        \A v \in Views : Marked(v) =>
            \A x \in VisibleItems : SpecializeOk(x) =>
                /\ OitCount(phases[v].wboit, x) + OitCount(phases[v].histo, x) = 1
                /\ Count(phases[v].transparent, x) = 0

\* C9: no view carries both the naive and the histogram marker.
C9_ModeExclusive ==
    \A v \in Views : ~(settings[v].naive /\ settings[v].he)

\* C10: for a view without a marker no accumulation, CDF build or composite
\* pass does any work, its standard list is the one the host queued and the
\* standard pass draws all of it.
OitNodes == Nodes \ {"MainTransparentPass", "EndMainPass"}
Rendering == pc \in {Schedule[i] : i \in 1..Len(Schedule)}
C11_NoAccumWithMsaa ==
    \A v \in Views : (Rendering /\ Marked(v) /\ msaa[v] /= "Off") =>
        \A n \in {"WboitAccumPass", "HistoWboitAccumPass"} :
            \A e \in Runs(v, n) : ~e.work

\* C12: a system of PrepareResources leaves a view of unknown size as it
\* found it (textures, frame_index, flips, histogram resources and parameters,
\* pending insert), allocates nothing when no opted-in view has a size, and
\* when the set has run every opted-in view of known size holds its
\* resources, flipped if it had them before.
SkippedUnchanged(v) ==
    /\ wboitTextures'[v] = wboitTextures[v]
    /\ histoTextures'[v] = histoTextures[v]
    /\ insertCmd'[v] = insertCmd[v]
    /\ flips'[v] = flips[v]
PreparedAfter(w) ==
    /\ IsSome(wboitTextures'[w])
    /\ hadTextures[w] => flips'[w] >= 1
    /\ extracted[w].he => IsSome(histoTextures'[w])
C12_UnknownSizeSkipped ==
    [][pc = "PrepareResources" =>
        /\ \A v \in Views : viewport[v] = None => SkippedUnchanged(v)
        /\ (\A v \in Views : Marked(v) => viewport[v] = None) =>
                (textures' = textures /\ textureCache' = textureCache)
        /\ pc' /= "PrepareResources" =>
                \A w \in Views : (Marked(w) /\ IsSome(viewport[w])) => PreparedAfter(w)]_vars
\* View v had no size in the first frame and was skipped while view w was
\* prepared; in the second frame v has its size again and was prepared for
\* the first time, beside w, whose frame_index was flipped.
C12_Witness ==
    \E v, w \in Views :
        /\ v /= w
        /\ frame = 2 /\ Past("PrepareResources")
        /\ Marked(v) /\ Marked(w)
        /\ IsSome(viewport[v])
        /\ ~hadTextures[v] /\ IsSome(wboitTextures[v])
        /\ Get(wboitTextures[v]).frame_index = 0
        /\ hadTextures[w] /\ flips[w] = 1

\* C13: when prepare_histogram_wboit_textures runs for an HE view of known
\* size, the histogram buffer, CDF texture and parameter buffer are created
\* anew exactly when the view had none or its (tile_count_x, tile_count_y,
\* num_bins) differs from the stored one; otherwise the buffer and the CDF
\* are the same objects with the same contents and the parameters hold the
\* current tile_size and max_depth.
HistogramSystemRuns ==
    /\ pc = "PrepareResources"
    /\ \/ prepared = {} /\ prepared' = {"prepare_histogram_wboit_textures"}
       \/ prepared = {"prepare_wboit_textures"}
Geometry(h) == <<h.tile_count_x, h.tile_count_y, h.num_bins>>
GeometryNow(v) ==
    <<DivCeil(Get(viewport[v]), he_settings(v).tile_size),
      DivCeil(Get(viewport[v]), he_settings(v).tile_size),
      he_settings(v).num_bins>>
C13_RecreatedIffGeometryChanged ==
    [][HistogramSystemRuns =>
        \A v \in Views : (extracted[v].he /\ IsSome(viewport[v])) =>
            LET old == histoTextures[v]
                new == Get(histoTextures'[v])
            IN /\ IsSome(histoTextures'[v])
               /\ Geometry(new) = GeometryNow(v)
               /\ new.params.tile_size = he_settings(v).tile_size
               /\ new.params.max_depth = he_settings(v).max_depth
               /\ IF old = None \/ Geometry(Get(old)) /= GeometryNow(v)
                  THEN new.created = frame /\ new.histogram = {} /\ new.cdf = ZeroCdf
                  ELSE /\ new.created = Get(old).created /\ new.created < frame
                       /\ new.histogram = Get(old).histogram
                       /\ new.cdf = Get(old).cdf]_vars
\* A view whose tile_size changed while the tile counts did not: the CDF
\* built in an earlier frame is still there, under the new parameters.
C13_Witness ==
    \E v \in Views :
        /\ pc = "prepare_wboit_composite_bind_group"
        /\ extracted[v].he /\ IsSome(viewport[v]) /\ IsSome(histoTextures[v])
        /\ Get(histoTextures[v]).params.tile_size = 30
        /\ Get(histoTextures[v]).created < frame
        /\ Get(histoTextures[v]).cdf /= ZeroCdf

\* C14: in a frame in which the size of a view is known, every accumulation
\* and composite pass that does work for the view binds accum and revealage
\* textures of that size.
BindingNodes ==
    {"WboitAccumPass", "WboitCompositePass", "HistoWboitAccumPass", "HistoWboitCompositePass"}
CdfAt(t, bin) == cdfTexture[<<t[1], t[2], bin>>]
RECURSIVE Power(_, _)
Power(b, n) == IF n = 0 THEN 1 ELSE b * Power(b, n - 1)
ProductOfTransmittances(bag) ==
    Power(4, bag[1]) * Power(3, bag[2]) * Power(2, bag[3]) * Power(1, bag[4])
C17_RevealageIsProduct ==
    (BagSize(toBlend) = 0 /\ BagSize(blended) > 0) =>
        revealageTexel * Power(5, BagSize(blended))
            = UnormMax * ProductOfTransmittances(blended)

\* C18: when the specialization of a visible item fails, that item is not in
\* the OIT phase of any view, every other visible item, listed before or
\* after it, is in the OIT phase of every opted-in view, and the frame goes
\* on: the accumulation pass of a view with textures draws the other items
\* and the composite node and the end of the main pass are reached.
Eligible == {i \in VisibleItems : SpecializeOk(i)}
QueuedAllButFailed(phase) ==
    \A i \in Items : OitCount(phase, i) > 0 <=> i \in Eligible
FrameProceeds(v, accum, composite) ==
    /\ HasRun(v, accum) /\ HasRun(v, composite) /\ HasRun(v, "EndMainPass")
    /\ (IsSome(wboitTextures[v]) /\ Eligible /= {}) =>
            \E e \in Runs(v, accum) : e.work /\ e.items = Eligible
C18_SpecializeFailureLocal ==
    (\E i \in VisibleItems : ~SpecializeOk(i)) =>
        /\ Past("queue_wboit_meshes") =>
                \A v \in wboit_views : QueuedAllButFailed(phases[v].wboit)
        /\ Past("queue_histo_wboit_meshes") =>
                \A v \in he_wboit_views : QueuedAllButFailed(phases[v].histo)
        /\ pc = "cleanup" =>
                /\ \A v \in wboit_views : FrameProceeds(v, "WboitAccumPass", "WboitCompositePass")
                /\ \A v \in he_wboit_views :
                        FrameProceeds(v, "HistoWboitAccumPass", "HistoWboitCompositePass")
\* Item 2, first in the list, failed to specialize; item 1, listed after it,
\* was queued and drawn by the accumulation pass.
C18_Witness ==
    \E v \in wboit_views :
        /\ pc = "cleanup"
        /\ scene = <<2, 1>> /\ ~SpecializeOk(2)
        /\ OitCount(phases[v].wboit, 2) = 0
        /\ \E e \in Runs(v, "WboitAccumPass") : e.work /\ e.items = {1}

\* C19: during a frame a view that is not opted in holds no WBOIT resource
\* (textures and frame_index, histogram resources, bind groups, composite
\* pipeline ids), and at the end of a frame an opted-in view of known size
\* holds its textures, with frame_index = 0 if it had none when the frame began.
NoResources(v) ==
    /\ wboitTextures[v] = None
    /\ histoTextures[v] = None
    /\ bindGroups[v] = [naive |-> None, he |-> None]
    /\ pipelineId[v] = [naive |-> "none", he |-> "none"]
C20_CdfBuildSkippedWithoutAccum ==
    \A v \in Views :
        (InFrame /\ \E e \in Runs(v, "HistoCdfBuildPass") : e.work) =>
            \E a \in Runs(v, "HistoWboitAccumPass") : a.work

(***************************************************************************)
(* Depth texture usages of the opted-in cameras.                           *)
(***************************************************************************)
\* The main world has finished its frame: the Last schedule has run and the
\* application changes nothing until the next frame begins.
MainFrameEnded == pc = "Extract" \/ \E i \in 1..Len(Schedule) : pc = Schedule[i]

OptedIn(v) == settings[v].naive \/ settings[v].he

ConfigureStep ==
    configure_depth_texture_usages_wboit \/ configure_depth_texture_usages_he_wboit

\* C28: the configuration step only adds usage flags (no flag a camera had is
\* removed), and running it again changes nothing.
C28_ConfigureOnlyAdds ==
    [][ConfigureStep =>
         \A v \in Views :
            /\ depthUsages[v] \subseteq depthUsages'[v]
            /\ ConfigureDepth(depthUsages'[v]) = depthUsages'[v]]_vars


(***************************************************************************)
(* The composite bind group against the accumulation pass of the frame.    *)
(***************************************************************************)
\* The accumulation passes that wrote targets for v in the current frame.
AccumWrites(v) ==
    {e \in Runs(v, "WboitAccumPass") \cup Runs(v, "HistoWboitAccumPass") : e.work}

\* The composite pass run `e` of v read the textures the frame works with:
\* the accum texture and revealage[frame_index] of the WboitTextures of this
\* frame, which are the ones every accumulation pass of the frame wrote.
ReadsThisFrame(v, rebuilt, e) ==
    /\ rebuilt
    /\ IsSome(wboitTextures[v])
    /\ e.tex = Get(wboitTextures[v]).id
    /\ e.index = Get(wboitTextures[v]).frame_index
    /\ \A a \in AccumWrites(v) : a.tex = e.tex /\ a.index = e.index

C23_HistogramSizeExact ==
    (histoCreated.status /= "pending" /\ histoInput.tile_size >= 1) =>
        /\ histoCreated.status = "created"
        /\ histoCreated.histogram_size =
                HistogramSizeExact(histoCreated.tile_count_x, histoCreated.tile_count_y,
                                   histoCreated.num_bins).value
        /\ histoCreated.cdf_size =
                <<histoCreated.tile_count_x, histoCreated.tile_count_y, histoCreated.num_bins>>
        /\ histoCreated.tile_count_x = DivCeil(histoInput.width, histoInput.tile_size)
        /\ histoCreated.tile_count_y = DivCeil(histoInput.height, histoInput.tile_size)
        /\ histoCreated.num_bins = histoInput.num_bins

\* The tile of the pixel coordinate p (the shaders divide by tile_size).
TileOf(p, tile_size) == p \div tile_size

\* C27: for every viewport size and tile_size >= 1 the tile counts are
\* ceil(size / tile_size) and every pixel of the viewport maps to a tile
\* inside the extents; and the creation completes without a panic for every
\* settings value the application can supply.
C27_TilesCoverNoPanic ==
    histoCreated.status /= "pending" =>
        /\ histoCreated.status = "created"
        /\ histoInput.tile_size >= 1 =>
            /\ \A x \in {0, histoInput.width - 1} :
                    TileOf(x, histoInput.tile_size) < histoCreated.tile_count_x
            /\ \A y \in {0, histoInput.height - 1} :
                    TileOf(y, histoInput.tile_size) < histoCreated.tile_count_y
            /\ (histoCreated.tile_count_x - 1) * histoInput.tile_size < histoInput.width
            /\ (histoCreated.tile_count_y - 1) * histoInput.tile_size < histoInput.height


(***************************************************************************)
(* The drain of the standard transparent list against the OIT queue step.  *)
(***************************************************************************)
\* A queue step got past its early exits for view v in this frame: its
\* pipeline resource exists, the view is in its query, has an OIT phase entry
\* and a cached view key.
QueueProcessed(v) == v \in QueueViews("naive") \cup QueueViews("he")

DrainStep == drain_transparent_for_wboit \/ drain_transparent_for_he_wboit

CompositeDraws(v, node) == {e \in Runs(v, node) : e.work}

C26_PrevRevealageNotTarget ==
    \A v \in Views :
        \A e \in HeDraws(v) :
            /\ e.prevTex = e.tex
            /\ e.prevIndex = 1 - e.index
            /\ <<e.prevTex, e.prevIndex>> /= <<e.tex, e.index>>

\* Passes that drew with frame_index 0 and, in a later frame, with 1.
C26_Witness ==
    \E v \in Views :
        /\ frame >= 2
        /\ \E e \in HeDraws(v) : e.index = 1 /\ e.prevIndex = 0 /\ e.tex /= 0


(***************************************************************************)
(* The target format of the composite pipeline.                            *)
(***************************************************************************)
\* C29: in every frame in which a composite pass draws for a view, the target
\* format of the composite pipeline stored for the view is the format of the
\* colour target of the view in that frame, HDR or default, also when the
\* format changed after the pipeline was queued.
C29_PipelineFormatIsTargetFormat ==
    \A v \in Views :
        /\ CompositeDraws(v, "WboitCompositePass") /= {} =>
                pipelineFormat[v].naive = main_texture_format(v)
        /\ CompositeDraws(v, "HistoWboitCompositePass") /= {} =>
                pipelineFormat[v].he = main_texture_format(v)


(***************************************************************************)
(* The OIT phase entries after extraction.                                 *)
(***************************************************************************)
\* The views that have an entry in the OIT phases of a family.
WithEntry(family) ==
    {v \in Views : IsSome(IF family = "naive" THEN phases[v].wboit ELSE phases[v].histo)}

\* C30: once the extract step of a family has run in a frame, the views with
\* an OIT phase entry of the family are the cameras that carry its marker now
\* (no entry survives an opt-out), every entry is empty right after the step,
\* and so every item an accumulation pass draws was queued in this frame.
C30_PhaseEntriesFollowMarkers ==
    /\ Past("extract_wboit_camera_phases") => WithEntry("naive") = wboit_cameras
    /\ Past("extract_histo_wboit_camera_phases") => WithEntry("he") = he_wboit_cameras
    /\ pc = After("extract_wboit_camera_phases") =>
            \A v \in WithEntry("naive") : phases[v].wboit = Some(<<>>)
    /\ pc = After("extract_histo_wboit_camera_phases") =>
            \A v \in WithEntry("he") : phases[v].histo = Some(<<>>)
    /\ InFrame =>
            \A v \in Views :
                \A e \in Runs(v, "WboitAccumPass") \cup Runs(v, "HistoWboitAccumPass") :
                    e.items \subseteq VisibleItems

\* The second frame of a view that opted out after a frame in which its entry
\* held items: the entry is gone; the other view never had one.
C30_Witness ==
    /\ pc = After("extract_histo_wboit_camera_phases")
    /\ frame = 2
    /\ ~settings[1].naive /\ ~settings[1].he
    /\ WithEntry("naive") = {} /\ WithEntry("he") = {}
    /\ pipelineId[1].naive = "ready"
    /\ scene /= <<>>


====
